---- MODULE Spec2Model ----
(***************************************************************************)
(* Model of app/db/database.py: DatabaseManager, the schema catalog        *)
(* (MetaData reflection cache) and the row operations built on it, run     *)
(* against an SQLite database through SQLAlchemy (1.4 or later: the code   *)
(* uses select(table), Select.subquery(), Select.filter_by() and           *)
(* Row._mapping, none of which exist before 1.4).                          *)
(*                                                                         *)
(* A call of a DatabaseManager method is one step.  The variable `last`    *)
(* holds the most recent event: the call's arguments, how it ended         *)
(* (returned a success result, returned a failure result, raised) and the  *)
(* statements it handed to the connection.                                 *)
(*                                                                         *)
(* SpecConcurrent is a second specification of the same object called      *)
(* from several threads at once: there the first two lines of a method     *)
(* (the test of the cache and the reflection) are steps of their own, and  *)
(* `callers` holds where each thread stands.                               *)
(***************************************************************************)
EXTENDS Integers, Sequences, FiniteSets, TLC

VARIABLES live, rows, cached, last, callers, reflected

vars == <<live, rows, cached, last, callers, reflected>>

-----------------------------------------------------------------------------
(* Bounds of the model.                                                    *)

\* Largest value of users.id (explicit or generated by the database).
MaxId == 1

\* Longest byte string carried by a binary envelope.
MaxBytes == 1

\* Number of threads calling the DatabaseManager at the same time.
MaxCallers == 2

-----------------------------------------------------------------------------
(* Values.  A Python / JSON value is a record of one shape, so that any    *)
(* two values can be compared:                                             *)
(*   kind  "absent" (no entry), "null", "str", "int", "bool", "map",       *)
(*         "bytes"                                                         *)
(*   s     the text of a str                                               *)
(*   n     the number of an int, 0/1 for a bool, the "size" entry of a map *)
(*         (-1: no such entry)                                             *)
(*   b     the bytes of a bytes value; for a map, the text of its "data"   *)
(*         entry as base64 symbols (0..63, 64 is the pad character "=")    *)
(*   type  the "type" entry of a map ("" : no such entry)                  *)
(*   dk    how a map's "data" entry is present: "none", "str" or "int"     *)

V(kind, s, n, b, type, dk) ==
    [kind |-> kind, s |-> s, n |-> n, b |-> b, type |-> type, dk |-> dk]

Absent    == V("absent", "", 0, <<>>, "", "none")
VNull     == V("null", "", 0, <<>>, "", "none")
VStr(s)   == V("str", s, 0, <<>>, "", "none")
VInt(n)   == V("int", "", n, <<>>, "", "none")
VBool(t)  == V("bool", "", IF t THEN 1 ELSE 0, <<>>, "", "none")
VBytes(b) == V("bytes", "", 0, b, "", "none")
VMap(type, dk, data, size) == V("map", "", size, data, type, dk)
EmptyMap  == VMap("", "none", <<>>, -1)

\* Python truthiness, the `and value` of the transcoding loop.
Truthy(v) ==
    CASE v.kind = "null"  -> FALSE
      [] v.kind = "str"   -> v.s # ""
      [] v.kind = "int"   -> v.n # 0
      [] v.kind = "bool"  -> v.n # 0
      [] v.kind = "bytes" -> v.b # <<>>
      [] v.kind = "map"   -> ~(v.type = "" /\ v.dk = "none" /\ v.n = -1)
      [] OTHER            -> FALSE

\* isinstance(value, dict) and value.get('type') == 'binary' and 'data' in value
IsEnvelope(v) == v.kind = "map" /\ v.type = "binary" /\ v.dk # "none"

-----------------------------------------------------------------------------
(* base64, as the standard library computes it.                            *)

Pad == 64

RECURSIVE B64Encode(_)
B64Encode(b) ==
    IF Len(b) = 0 THEN <<>>
    ELSE IF Len(b) = 1 THEN
        << b[1] \div 4, (b[1] % 4) * 16, Pad, Pad >>
    ELSE IF Len(b) = 2 THEN
        << b[1] \div 4, (b[1] % 4) * 16 + (b[2] \div 16), (b[2] % 16) * 4, Pad >>
    ELSE
        << b[1] \div 4, (b[1] % 4) * 16 + (b[2] \div 16),
           (b[2] % 16) * 4 + (b[3] \div 64), b[3] % 64 >>
        \o B64Encode(SubSeq(b, 4, Len(b)))

\* binascii.a2b_base64 (not strict): st = [q, left, pads, out]; characters
\* outside the alphabet are skipped, a complete pad sequence ends the input,
\* and input that ends inside a quad is an error.
RECURSIVE B64Scan(_, _, _)
B64Scan(txt, i, st) ==
    IF i > Len(txt) THEN
        [ok |-> st.q = 0, out |-> st.out]
    ELSE LET c == txt[i] IN
        IF c = Pad THEN
            IF st.q >= 2 /\ st.q + st.pads + 1 >= 4
            THEN [ok |-> TRUE, out |-> st.out]
            ELSE B64Scan(txt, i + 1,
                         [st EXCEPT !.pads = IF st.q >= 2 THEN st.pads + 1 ELSE st.pads])
        ELSE IF c > Pad THEN B64Scan(txt, i + 1, st)
        ELSE CASE st.q = 0 ->
                    B64Scan(txt, i + 1, [q |-> 1, left |-> c, pads |-> 0, out |-> st.out])
               [] st.q = 1 ->
                    B64Scan(txt, i + 1,
                            [q |-> 2, left |-> c % 16, pads |-> 0,
                             out |-> Append(st.out, st.left * 4 + (c \div 16))])
               [] st.q = 2 ->
                    B64Scan(txt, i + 1,
                            [q |-> 3, left |-> c % 4, pads |-> 0,
                             out |-> Append(st.out, st.left * 16 + (c \div 4))])
               [] OTHER ->
                    B64Scan(txt, i + 1,
                            [q |-> 0, left |-> 0, pads |-> 0,
                             out |-> Append(st.out, st.left * 64 + c)])

\* base64.b64decode(value['data']): a TypeError when data is no string, a
\* binascii.Error when the text is not padded correctly.
B64Decode(v) ==
    IF v.dk # "str" THEN [ok |-> FALSE, out |-> <<>>]
    ELSE B64Scan(v.b, 1, [q |-> 0, left |-> 0, pads |-> 0, out |-> <<>>])

-----------------------------------------------------------------------------
(* The backing database: its tables and their declared columns.  The       *)
(* schema of a table name is fixed; tables come and go (CREATE / DROP).    *)
(*   users(id INTEGER PRIMARY KEY, name TEXT, avatar BLOB)                 *)

TableNames == {"users"}

\* Every key a caller's mapping may hold; "bogus" is a column of no table.
Keys == {"id", "name", "avatar", "bogus"}

ColumnSeq(t) == IF t = "users" THEN <<"id", "name", "avatar">> ELSE <<>>

\* table.columns: `col_name in table.columns`
Columns(t) == {ColumnSeq(t)[i] : i \in 1..Len(ColumnSeq(t))}

ColType(t, c) ==
    IF c = "id" THEN "INTEGER" ELSE IF c = "avatar" THEN "BLOB" ELSE "TEXT"

\* isinstance(table.columns[col_name].type, LargeBinary)
IsBinary(t, c) == c \in Columns(t) /\ ColType(t, c) = "BLOB"

\* [col.name for col in table.primary_key]
PkColumns(t) == IF t = "users" THEN {"id"} ELSE {}

\* A mapping (dict) is a function on Keys; Absent marks a key it does not hold.
NoEntries == [k \in Keys |-> Absent]

Entries(m) == {k \in Keys : m[k] # Absent}

\* The rows of a table in the database's natural order (rowid order: for
\* users the rowid is id).
RowIds(rs) == {rs[i]["id"].n : i \in 1..Len(rs)}

-----------------------------------------------------------------------------
(* Catalog.                                                                *)

\* Reflection without the test of the cache: every call asks the database.
Reflect_Always(t) ==
    IF t \in live THEN [ok |-> TRUE, cached |-> cached \cup {t}]
    ELSE [ok |-> FALSE, cached |-> cached]

\* self.metadata.reflect(only=[table_name]) under `if table_name not in
\* self.metadata.tables`: reflection raises (InvalidRequestError) for a table
\* the database does not hold; a cached table is never reflected again.
Reflect(t) ==
    IF t \in cached THEN [ok |-> TRUE, cached |-> cached]
    ELSE IF t \in live THEN [ok |-> TRUE, cached |-> cached \cup {t}]
    ELSE [ok |-> FALSE, cached |-> cached]

ColumnMeta(t, c) ==
    [name |-> c, type |-> ColType(t, c), nullable |-> c \notin PkColumns(t),
     primary_key |-> c \in PkColumns(t), is_binary |-> IsBinary(t, c)]

-----------------------------------------------------------------------------
(* Transcoding of row data (insert_row and update_row, the same loop).     *)

\* The loop without its `and value`: what is no envelope is dropped, false
\* or not.
ProcessEntry_NoTruthTest(t, k, v) ==
    IF v = Absent THEN Absent
    ELSE IF k \in Columns(t) /\ IsBinary(t, k) THEN
        IF IsEnvelope(v) THEN VBytes(B64Decode(v).out) ELSE Absent
    ELSE v

\* One entry of processed_data: the decoded bytes of a well-formed envelope,
\* nothing for any other truthy value of a binary column, and the value as
\* given in every other case (an unknown column, a column that is not
\* binary, a falsy value).
ProcessEntry(t, k, v) ==
    IF v = Absent THEN Absent
    ELSE IF k \in Columns(t) /\ IsBinary(t, k) /\ Truthy(v) THEN
        IF IsEnvelope(v) THEN VBytes(B64Decode(v).out) ELSE Absent
    ELSE v

\* b64decode raises out of the loop, which no try encloses: the exception's
\* class, "" when every envelope decodes.
DecodeError(t, data) ==
    LET bad == {k \in Entries(data) :
                  /\ k \in Columns(t) /\ IsBinary(t, k) /\ Truthy(data[k])
                  /\ IsEnvelope(data[k])
                  /\ ~B64Decode(data[k]).ok}
    IN  IF bad = {} THEN ""
        ELSE IF \E k \in bad : data[k].dk # "str" THEN "TypeError"
        ELSE "binascii.Error"

ProcessData(t, data) == [k \in Keys |-> ProcessEntry(t, k, data[k])]

\* Row values on the way out (get_table_data): a non-null value of a binary
\* column becomes the envelope, every other value is passed through.
Envelope(bytes) == VMap("binary", "str", B64Encode(bytes), Len(bytes))

RowOut(t, row) ==
    [k \in Keys |->
        IF IsBinary(t, k) /\ row[k] # VNull /\ row[k] # Absent
        THEN Envelope(row[k].b) ELSE row[k]]

-----------------------------------------------------------------------------
(* The engine: what SQLAlchemy and SQLite do with a statement.             *)

\* The DBAPI binds None, int, str and bytes; a bool is an int.  A mapping is
\* refused, and LargeBinary's bind processor (memoryview(value)) refuses
\* everything but None and bytes.
BindOK(t, c, v) ==
    IF IsBinary(t, c) THEN v.kind \in {"null", "bytes"}
    ELSE v.kind \in {"null", "str", "int", "bool", "bytes"}

\* Column affinity: a bool is stored as an int, a number in a TEXT column as
\* its text.
Coerce(t, c, v) ==
    LET w == IF v.kind = "bool" THEN VInt(v.n) ELSE v IN
    IF ColType(t, c) = "TEXT" /\ w.kind = "int" THEN VStr(ToString(w.n)) ELSE w

\* The loop without its `if col_name in table.columns`.
Conditions_Unfiltered(t, pk) == pk

\* The WHERE clause of update_row / delete_row: one equality for every key
\* of primary_key that is a column of the table.
Conditions(t, pk) == [k \in Keys |-> IF k \in Columns(t) THEN pk[k] ELSE Absent]

Matches(t, row, conds) ==
    \A k \in Entries(conds) : row[k] = Coerce(t, k, conds[k])

Matching(t, rs, conds) == {i \in 1..Len(rs) : Matches(t, rs[i], conds)}

\* Why the engine refuses a statement, "" when it does not.
\*   CompileError      a value for a column the table does not have
\*                     ("Unconsumed column names")
\*   StatementError    a parameter the DBAPI cannot bind
\*   OperationalError  the table is gone, or an UPDATE without any value
\*                     (needsValues: its SET clause is empty; an INSERT
\*                     without values is INSERT ... DEFAULT VALUES)
\* Each is a SQLAlchemyError, raised inside the try of the caller.
StatementError(t, vals, conds, needsValues) ==
    IF ~(Entries(vals) \subseteq Columns(t)) THEN "CompileError"
    ELSE IF \E k \in Entries(vals) : ~BindOK(t, k, vals[k]) THEN "StatementError"
    ELSE IF \E k \in Entries(conds) : ~BindOK(t, k, conds[k]) THEN "StatementError"
    ELSE IF needsValues /\ Entries(vals) = {} THEN "OperationalError"
    ELSE IF t \notin live THEN "OperationalError"
    ELSE ""

Stmt(kind, t, vals, conds) ==
    [kind |-> kind, table |-> t, values |-> vals, where |-> conds]

-----------------------------------------------------------------------------
(* Results of a call.  An event holds the arguments, the outcome ("ok": a  *)
(* result with success, "fail": a result without, "raised": an exception   *)
(* left the method), the message, the exception's class, the echoed row,   *)
(* what a read returned, and the statements handed to the connection.      *)
(* changed: the call changed the table's rows.  repeat: the event before   *)
(* it was the same call with the same arguments, and that one succeeded.   *)

NoEvent ==
    [op |-> "init", table |-> "", pk |-> NoEntries, data |-> NoEntries,
     filters |-> NoEntries, skip |-> 0, limit |-> 0,
     outcome |-> "none", message |-> "", error |-> "",
     hasData |-> FALSE, echo |-> NoEntries,
     columns |-> <<>>, tables |-> {}, count |-> -1, page |-> <<>>,
     stmts |-> <<>>, changed |-> FALSE, repeat |-> FALSE]

\* An exception that leaves the method.
Raised(ev, error, stmts) ==
    [ev EXCEPT !.outcome = "raised", !.error = error, !.stmts = stmts]

\* {'success': False, 'message': ...}
Failure(ev, message, error, stmts) ==
    [ev EXCEPT !.outcome = "fail", !.message = message, !.error = error,
               !.stmts = stmts]

\* {'success': True, 'message': ...}
Success(ev, message, stmts) ==
    [ev EXCEPT !.outcome = "ok", !.message = message, !.stmts = stmts]

-----------------------------------------------------------------------------
(* insert_row                                                              *)

MaxOf(S) == IF S = {} THEN 0 ELSE CHOOSE x \in S : \A y \in S : y <= x

\* The row SQLite stores for INSERT ... VALUES: columns without a value are
\* NULL, and an INTEGER PRIMARY KEY without a value is the largest rowid
\* plus one.
NewRow(t, rs, vals) ==
    [k \in Keys |->
        IF k \notin Columns(t) THEN Absent
        ELSE IF k \in PkColumns(t) /\ vals[k] \in {Absent, VNull}
             THEN VInt(MaxOf(RowIds(rs)) + 1)
        ELSE IF vals[k] = Absent THEN VNull
        ELSE Coerce(t, k, vals[k])]

\* Constraint violations of a row about to be stored (IntegrityError).
Violates(t, rs, row) ==
    \E k \in PkColumns(t) : row[k].kind # "int" \/ row[k].n \in RowIds(rs)

\* rs with row added, in rowid order.
RECURSIVE Place(_, _, _)
Place(t, rs, row) ==
    IF PkColumns(t) = {} \/ rs = <<>> THEN Append(rs, row)
    ELSE IF rs[Len(rs)]["id"].n < row["id"].n THEN Append(rs, row)
    ELSE Append(Place(t, SubSeq(rs, 1, Len(rs) - 1), row), rs[Len(rs)])

\* The column = value mapping of the re-fetch: pk_condition.
PkCondition(t, row) == [k \in Keys |-> IF k \in PkColumns(t) THEN row[k] ELSE Absent]

insert_row(t, data) ==
    LET ev   == [NoEvent EXCEPT !.op = "insert_row", !.table = t, !.data = data]
        r    == Reflect(t)
        vals == ProcessData(t, data)
        ins  == Stmt("INSERT", t, vals, NoEntries)
        err  == StatementError(t, vals, NoEntries, FALSE)
        row  == NewRow(t, rows[t], vals)
        sel  == Stmt("SELECT", t, NoEntries, PkCondition(t, row))
    IN  IF ~r.ok THEN
            [cached |-> r.cached, rows |-> rows[t],
             event |-> Raised(ev, "InvalidRequestError", <<>>)]
        ELSE IF DecodeError(t, data) # "" THEN
            [cached |-> r.cached, rows |-> rows[t],
             event |-> Raised(ev, DecodeError(t, data), <<>>)]
        ELSE IF err # "" THEN
            [cached |-> r.cached, rows |-> rows[t],
             event |-> Failure(ev, "Error inserting row", err, <<ins>>)]
        ELSE IF Violates(t, rows[t], row) THEN
            [cached |-> r.cached, rows |-> rows[t],
             event |-> Failure(ev, "Error inserting row", "IntegrityError", <<ins>>)]
        ELSE IF PkColumns(t) # {} THEN
            \* result.inserted_primary_key: re-fetch, data = dict(row._mapping)
            [cached |-> r.cached, rows |-> Place(t, rows[t], row),
             event |-> [Success(ev, "Row inserted successfully", <<ins, sel>>)
                           EXCEPT !.hasData = TRUE, !.echo = row]]
        ELSE
            [cached |-> r.cached, rows |-> Place(t, rows[t], row),
             event |-> Success(ev, "Row inserted successfully", <<ins>>)]

-----------------------------------------------------------------------------
(* update_row                                                              *)

\* The rows after UPDATE t SET vals WHERE conds.
Updated(t, rs, vals, conds) ==
    [i \in 1..Len(rs) |->
        IF Matches(t, rs[i], conds)
        THEN [k \in Keys |->
                IF vals[k] = Absent THEN rs[i][k] ELSE Coerce(t, k, vals[k])]
        ELSE rs[i]]

\* A primary key that is no integer, or held by two rows (IntegrityError).
BadKeys(t, rs) ==
    \E k \in PkColumns(t) :
        \/ \E i \in 1..Len(rs) : rs[i][k].kind # "int"
        \/ \E i, j \in 1..Len(rs) : i # j /\ rs[i][k] = rs[j][k]

\* rs in rowid order.
RECURSIVE Sorted(_, _)
Sorted(t, rs) ==
    IF rs = <<>> THEN <<>>
    ELSE Place(t, Sorted(t, SubSeq(rs, 1, Len(rs) - 1)), rs[Len(rs)])

update_row(t, pk, data) ==
    LET ev    == [NoEvent EXCEPT !.op = "update_row", !.table = t, !.pk = pk,
                                 !.data = data]
        r     == Reflect(t)
        vals  == ProcessData(t, data)
        conds == Conditions(t, pk)
        upd   == Stmt("UPDATE", t, vals, conds)
        err   == StatementError(t, vals, conds, TRUE)
        after == Updated(t, rows[t], vals, conds)
    IN  IF ~r.ok THEN
            [cached |-> r.cached, rows |-> rows[t],
             event |-> Raised(ev, "InvalidRequestError", <<>>)]
        ELSE IF DecodeError(t, data) # "" THEN
            [cached |-> r.cached, rows |-> rows[t],
             event |-> Raised(ev, DecodeError(t, data), <<>>)]
        ELSE IF Entries(conds) = {} THEN
            [cached |-> r.cached, rows |-> rows[t],
             event |-> Failure(ev, "No valid primary key provided", "", <<>>)]
        ELSE IF err # "" THEN
            [cached |-> r.cached, rows |-> rows[t],
             event |-> Failure(ev, "Error updating row", err, <<upd>>)]
        ELSE IF BadKeys(t, after) THEN
            [cached |-> r.cached, rows |-> rows[t],
             event |-> Failure(ev, "Error updating row", "IntegrityError", <<upd>>)]
        ELSE IF Matching(t, rows[t], conds) = {} THEN
            [cached |-> r.cached, rows |-> rows[t],
             event |-> Failure(ev, "No rows were updated", "", <<upd>>)]
        ELSE
            [cached |-> r.cached, rows |-> Sorted(t, after),
             event |-> Success(ev, "Row updated successfully", <<upd>>)]

-----------------------------------------------------------------------------
(* delete_row                                                              *)

\* The rows after DELETE FROM t WHERE conds.
RECURSIVE Remaining(_, _, _)
Remaining(t, rs, conds) ==
    IF rs = <<>> THEN <<>>
    ELSE LET rest == Remaining(t, SubSeq(rs, 1, Len(rs) - 1), conds) IN
         IF Matches(t, rs[Len(rs)], conds) THEN rest
         ELSE Append(rest, rs[Len(rs)])

\* delete_row without its test of result.rowcount.
delete_row_Unchecked(t, pk) ==
    LET ev    == [NoEvent EXCEPT !.op = "delete_row", !.table = t, !.pk = pk]
        r     == Reflect(t)
        conds == Conditions(t, pk)
        del   == Stmt("DELETE", t, NoEntries, conds)
        err   == StatementError(t, NoEntries, conds, FALSE)
    IN  IF ~r.ok THEN
            [cached |-> r.cached, rows |-> rows[t],
             event |-> Raised(ev, "InvalidRequestError", <<>>)]
        ELSE IF Entries(conds) = {} THEN
            [cached |-> r.cached, rows |-> rows[t],
             event |-> Failure(ev, "No valid primary key provided", "", <<>>)]
        ELSE IF err # "" THEN
            [cached |-> r.cached, rows |-> rows[t],
             event |-> Failure(ev, "Error deleting row", err, <<del>>)]
        ELSE
            [cached |-> r.cached, rows |-> Remaining(t, rows[t], conds),
             event |-> Success(ev, "Row deleted successfully", <<del>>)]

delete_row(t, pk) ==
    LET ev    == [NoEvent EXCEPT !.op = "delete_row", !.table = t, !.pk = pk]
        r     == Reflect(t)
        conds == Conditions(t, pk)
        del   == Stmt("DELETE", t, NoEntries, conds)
        err   == StatementError(t, NoEntries, conds, FALSE)
    IN  IF ~r.ok THEN
            [cached |-> r.cached, rows |-> rows[t],
             event |-> Raised(ev, "InvalidRequestError", <<>>)]
        ELSE IF Entries(conds) = {} THEN
            [cached |-> r.cached, rows |-> rows[t],
             event |-> Failure(ev, "No valid primary key provided", "", <<>>)]
        ELSE IF err # "" THEN
            [cached |-> r.cached, rows |-> rows[t],
             event |-> Failure(ev, "Error deleting row", err, <<del>>)]
        ELSE IF Matching(t, rows[t], conds) = {} THEN
            [cached |-> r.cached, rows |-> rows[t],
             event |-> Failure(ev, "No rows were deleted", "", <<del>>)]
        ELSE
            [cached |-> r.cached, rows |-> Remaining(t, rows[t], conds),
             event |-> Success(ev, "Row deleted successfully", <<del>>)]

-----------------------------------------------------------------------------
(* get_tables, get_table_columns, get_table_data                           *)

\* inspect(self.engine).get_table_names(): the live schema, never the cache.
get_tables ==
    [Success([NoEvent EXCEPT !.op = "get_tables"], "", <<>>) EXCEPT !.tables = live]

get_table_columns(t) ==
    LET ev == [NoEvent EXCEPT !.op = "get_table_columns", !.table = t]
        r  == Reflect(t)
    IN  IF ~r.ok THEN
            [cached |-> r.cached, event |-> Raised(ev, "InvalidRequestError", <<>>)]
        ELSE
            [cached |-> r.cached,
             event |-> [Success(ev, "", <<>>) EXCEPT
                          !.columns = [i \in 1..Len(ColumnSeq(t)) |->
                                          ColumnMeta(t, ColumnSeq(t)[i])]]]

\* The statement that is to compute the total,
\*   select([table]).select_from(query.subquery())
\*       .with_only_columns([table.count()])
\* cannot be built by any SQLAlchemy that accepts the rest of the module:
\* 1.4 has no Table.count (AttributeError), and 2.0 refuses a list as the
\* argument of select() (ArgumentError) before it comes to table.count.
\* The set holds what evaluating it can end in.  Nothing after line 62 (the
\* window, the conversion of the rows, the returned dict) is ever reached.
CountQueryOutcomes == {"AttributeError", "ArgumentError"}

get_table_data(t, skip, limit, filters, e) ==
    LET ev == [NoEvent EXCEPT !.op = "get_table_data", !.table = t, !.skip = skip,
                              !.limit = limit, !.filters = filters]
        r  == Reflect(t)
    IN  IF ~r.ok THEN
            [cached |-> r.cached, event |-> Raised(ev, "InvalidRequestError", <<>>)]
        ELSE
            [cached |-> r.cached, event |-> Raised(ev, e, <<>>)]

-----------------------------------------------------------------------------
(* Inputs of the calls.                                                    *)

ByteStrings == {[i \in 1..n |-> 200] : n \in 0..MaxBytes}

Sample == B64Encode(<<200>>)

\* Well-formed envelopes; the last one states a size that is not the length.
GoodEnvelopes ==
    {Envelope(b) : b \in ByteStrings} \cup {VMap("binary", "str", Sample, 7)}

\* Envelopes whose data b64decode refuses: a pad character short, no string.
BadEnvelopes ==
    {VMap("binary", "str", SubSeq(Sample, 1, 3), 1), VMap("binary", "int", <<>>, 1)}

\* Values that Python takes for false.
Falsy == {VNull, VStr(""), VInt(0), VBool(FALSE), EmptyMap}

\* Values that are true and no envelope: a string, a number, a mapping
\* without "type", a mapping without "data".
NotEnvelopes ==
    {VStr("abc"), VInt(5), VMap("", "str", Sample, 1), VMap("binary", "none", <<>>, 1)}

AvatarInputs == GoodEnvelopes \cup BadEnvelopes \cup Falsy \cup NotEnvelopes

Ids == {VInt(n) : n \in 1..MaxId}

Of(id, name, avatar, bogus) ==
    [k \in Keys |->
        CASE k = "id" -> id [] k = "name" -> name [] k = "avatar" -> avatar
          [] OTHER -> bogus]

\* primary_key arguments: none, only unknown, known, known and unknown.
PkInputs ==
    {Of(id, Absent, Absent, bogus) : id \in {Absent} \cup Ids, bogus \in {Absent, VInt(1)}}
    \cup {Of(Absent, VStr("ada"), Absent, Absent)}

\* Row data without a binary entry.
PlainRows ==
    {NoEntries, Of(Absent, VStr("ada"), Absent, Absent),
     Of(Absent, VStr("ada"), Absent, VInt(1))}

\* Row data with a binary entry.
AvatarRows == {Of(Absent, Absent, avatar, Absent) : avatar \in AvatarInputs}

InsertInputs ==
    PlainRows \cup AvatarRows
    \cup {Of(id, VStr("ada"), Absent, Absent) : id \in Ids}
    \cup {Of(Absent, VStr("ada"), Envelope(<<200>>), Absent)}

UpdateInputs ==
    (PkInputs \X PlainRows)
    \cup ({Of(id, Absent, Absent, Absent) : id \in Ids} \X AvatarRows)
    \cup ({Of(Absent, Absent, Absent, VInt(1))} \X
             {Of(Absent, Absent, avatar, Absent) :
                 avatar \in BadEnvelopes \cup {Envelope(<<200>>)}})

\* skip, limit, filters
ReadInputs ==
    {<<0, 1, NoEntries>>, <<1, 2, Of(Absent, VStr("ada"), Absent, VInt(1))>>}

\* The rows a table may hold within the bounds.
Fits(t, rs) == \A n \in RowIds(rs) : n <= MaxId

-----------------------------------------------------------------------------
(* The state machine.                                                      *)

Observed(ev, before, after) ==
    [ev EXCEPT !.changed = (before # after),
               !.repeat = /\ last.outcome = "ok" /\ last.op = ev.op
                          /\ last.table = ev.table /\ last.pk = ev.pk
                          /\ last.data = ev.data]

\* The threads that call the DatabaseManager, the methods that begin with
\* the test of the cache, and a thread that is in no call.
Callers == 1..MaxCallers

Methods ==
    {"get_table_columns", "get_table_data", "insert_row", "update_row",
     "delete_row"}

Idle == [method |-> "", table |-> "", at |-> "idle"]

\* DatabaseManager.__init__: every table of the database is reflected.
Init ==
    /\ live \in SUBSET TableNames
    /\ cached = live
    /\ rows = [t \in TableNames |-> <<>>]
    /\ last = NoEvent
    /\ callers = [c \in Callers |-> Idle]
    /\ reflected = [t \in TableNames |-> 0]

InsertRow ==
    \E t \in TableNames : \E data \in InsertInputs :
        \E r \in {insert_row(t, data)} :
        /\ Fits(t, r.rows)
        /\ rows' = [rows EXCEPT ![t] = r.rows]
        /\ cached' = r.cached
        /\ last' = Observed(r.event, rows[t], r.rows)
        /\ UNCHANGED <<live, callers, reflected>>

UpdateRow ==
    \E t \in TableNames : \E in \in UpdateInputs :
        \E r \in {update_row(t, in[1], in[2])} :
        /\ Fits(t, r.rows)
        /\ rows' = [rows EXCEPT ![t] = r.rows]
        /\ cached' = r.cached
        /\ last' = Observed(r.event, rows[t], r.rows)
        /\ UNCHANGED <<live, callers, reflected>>

DeleteRow ==
    \E t \in TableNames : \E pk \in PkInputs :
        \E r \in {delete_row(t, pk)} :
        /\ rows' = [rows EXCEPT ![t] = r.rows]
        /\ cached' = r.cached
        /\ last' = Observed(r.event, rows[t], r.rows)
        /\ UNCHANGED <<live, callers, reflected>>

GetTables ==
    /\ last' = get_tables
    /\ UNCHANGED <<live, rows, cached, callers, reflected>>

GetTableColumns ==
    \E t \in TableNames :
        \E r \in {get_table_columns(t)} :
        /\ cached' = r.cached
        /\ last' = r.event
        /\ UNCHANGED <<live, rows, callers, reflected>>

GetTableData ==
    \E t \in TableNames : \E in \in ReadInputs : \E e \in CountQueryOutcomes :
        \E r \in {get_table_data(t, in[1], in[2], in[3], e)} :
        /\ cached' = r.cached
        /\ last' = r.event
        /\ UNCHANGED <<live, rows, callers, reflected>>

\* Another client of the database creates a table.
CreateTable ==
    \E t \in TableNames :
        /\ t \notin live
        /\ live' = live \cup {t}
        /\ last' = [NoEvent EXCEPT !.op = "create_table", !.table = t]
        /\ UNCHANGED <<rows, cached, callers, reflected>>

\* Another client of the database drops a table, and its rows with it.
DropTable ==
    \E t \in TableNames :
        /\ t \in live
        /\ live' = live \ {t}
        /\ rows' = [rows EXCEPT ![t] = <<>>]
        /\ last' = [NoEvent EXCEPT !.op = "drop_table", !.table = t]
        /\ UNCHANGED <<cached, callers, reflected>>

Next ==
    \/ InsertRow
    \/ UpdateRow
    \/ DeleteRow
    \/ GetTables
    \/ GetTableColumns
    \/ GetTableData
    \/ CreateTable
    \/ DropTable

Spec == Init /\ [][Next]_vars

-----------------------------------------------------------------------------
(* The same object called from several threads.  No method takes a lock,   *)
(* and MetaData takes none either, so a thread can be suspended between    *)
(* the test `table_name not in self.metadata.tables` and the call of       *)
(* self.metadata.reflect, and again inside reflect between its reading of  *)
(* the tables it already holds and the registration of the table it has    *)
(* loaded.  `reflected[t]` counts the times table t was loaded from the    *)
(* database.                                                               *)

\* The database holds its tables; one of them may have been created after
\* DatabaseManager.__init__ ran, so that the cache does not hold it.
InitConcurrent ==
    /\ live \in SUBSET TableNames
    /\ cached = {}
    /\ rows = [t \in TableNames |-> <<>>]
    /\ last = NoEvent
    /\ callers = [c \in Callers |-> Idle]
    /\ reflected = [t \in TableNames |-> 0]

\* A thread enters one of the methods.
Call ==
    \E c \in Callers : \E m \in Methods : \E t \in TableNames :
        /\ callers[c].at = "idle"
        /\ callers' = [callers EXCEPT
                          ![c] = [method |-> m, table |-> t, at |-> "test"]]
        /\ UNCHANGED <<live, rows, cached, last, reflected>>

\* if table_name not in self.metadata.tables:
TestCached ==
    \E c \in Callers :
        /\ callers[c].at = "test"
        /\ callers' = [callers EXCEPT
                          ![c].at = IF callers[c].table \in cached
                                    THEN "table" ELSE "reflect"]
        /\ UNCHANGED <<live, rows, cached, last, reflected>>

\* self.metadata.reflect(only=[table_name], bind=self.engine), first half:
\* it raises for a table the database does not hold, has nothing to do for a
\* table MetaData holds by now, and otherwise loads the table.
ReflectBegin ==
    \E c \in Callers : \E t \in {callers[c].table} :
        /\ callers[c].at = "reflect"
        /\ callers' = [callers EXCEPT
                          ![c].at = IF t \notin live THEN "raised"
                                    ELSE IF t \in cached THEN "table"
                                    ELSE "loading"]
        /\ reflected' = IF t \in live /\ t \notin cached
                        THEN [reflected EXCEPT ![t] = @ + 1]
                        ELSE reflected
        /\ UNCHANGED <<live, rows, cached, last>>

\* self.metadata.reflect, second half: the loaded table is registered in
\* self.metadata.tables.
ReflectEnd ==
    \E c \in Callers :
        /\ callers[c].at = "loading"
        /\ cached' = cached \cup {callers[c].table}
        /\ callers' = [callers EXCEPT ![c].at = "table"]
        /\ UNCHANGED <<live, rows, last, reflected>>

\* table = self.metadata.tables[table_name] and the rest of the method,
\* which leaves the cache alone, or the propagation of reflect's exception.
Return ==
    \E c \in Callers :
        /\ callers[c].at \in {"table", "raised"}
        /\ callers' = [callers EXCEPT ![c] = Idle]
        /\ UNCHANGED <<live, rows, cached, last, reflected>>

NextConcurrent ==
    \/ Call
    \/ TestCached
    \/ ReflectBegin
    \/ ReflectEnd
    \/ Return

SpecConcurrent == InitConcurrent /\ [][NextConcurrent]_vars

-----------------------------------------------------------------------------
(* Properties.                                                             *)

IsRowWrite == last.op \in {"insert_row", "update_row", "delete_row"}

\* The call got past the catalog: the table was cached or could be reflected.
Resolved == last.error # "InvalidRequestError"

\* The keys of a mapping that are columns of the table, written out.
KnownPart(t, m) == [k \in Keys |-> IF k \in Columns(t) THEN m[k] ELSE Absent]

KnownKeys(t, m) == {k \in Keys : m[k] # Absent /\ k \in Columns(t)}

LastStmts == {last.stmts[i] : i \in 1..Len(last.stmts)}

\* C1: update_row and delete_row on a primary_key without any column of the
\* table return success=false, "No valid primary key provided", execute no
\* statement and leave the table as it was.
C1_NoValidKeyRejected ==
    /\ last.op \in {"update_row", "delete_row"}
    /\ Resolved
    /\ KnownKeys(last.table, last.pk) = {}
    => /\ last.outcome = "fail"
       /\ last.message = "No valid primary key provided"
       /\ last.stmts = <<>>
       /\ ~last.changed

\* C2: insert_row, update_row and delete_row on a table of the catalog never
\* raise: every failure is returned as a result with success=false.
C2_WritesNeverRaise ==
    IsRowWrite /\ Resolved => last.outcome \in {"ok", "fail"}

\* C3: the INSERT / UPDATE statement is given values for columns of the
\* table only; an entry for an unknown column is dropped and does not make
\* the statement fail.
C3_UnknownColumnsDropped ==
    \A st \in LastStmts :
        st.kind \in {"INSERT", "UPDATE"} =>
            /\ \A k \in Keys : st.values[k] # Absent => k \in Columns(st.table)
            /\ last.error # "CompileError"

\* C4: delete_row on a primary_key that identifies a row of the table returns
\* success; called again with the same primary_key right after, it returns
\* success=false, "No rows were deleted", and leaves the table as it was.
C4_DeleteTwice ==
    [][ last'.op = "delete_row" /\ last' # last =>
          LET t  == last'.table
              pk == last'.pk
          IN  /\ ( /\ t \in live
                   /\ KnownKeys(t, pk) # {}
                   /\ \E i \in 1..Len(rows[t]) :
                         \A k \in KnownKeys(t, pk) : rows[t][i][k] = pk[k]
                   => /\ last'.outcome = "ok"
                      /\ last'.message = "Row deleted successfully"
                      /\ \A i \in 1..Len(rows'[t]) :
                            \E k \in KnownKeys(t, pk) : rows'[t][i][k] # pk[k] )
              /\ ( /\ last.op = "delete_row" /\ last.outcome = "ok"
                   /\ last.table = t /\ last.pk = pk
                   => /\ last'.outcome = "fail"
                      /\ last'.message = "No rows were deleted"
                      /\ rows' = rows )
      ]_vars

C4_Witness ==
    /\ last.op = "delete_row" /\ last.repeat
    /\ last.message = "No rows were deleted"
    /\ last.table \in live

\* C5: get_table_data returns as count the number of rows that satisfy the
\* equality on every filter key that is a column of the table.
C5_CountIsFilteredTotal ==
    last.op = "get_table_data" /\ Resolved =>
        /\ last.outcome = "ok"
        /\ last.count =
             Cardinality({i \in 1..Len(rows[last.table]) :
                            \A k \in KnownKeys(last.table, last.filters) :
                                rows[last.table][i][k] = last.filters[k]})

\* C6: a row stored with bytes X in its binary column is returned by
\* get_table_data with the envelope of X in that column.
C6_BinaryRoundTrip ==
    /\ last.op = "get_table_data" /\ last.table \in live
    /\ last.skip = 0 /\ last.filters = NoEntries
    => \A i \in 1..Len(rows[last.table]) :
          i <= last.limit =>
            /\ last.outcome = "ok"
            /\ Len(last.page) >= i
            /\ \A k \in Keys :
                  rows[last.table][i][k].kind = "bytes" =>
                     last.page[i][k] = Envelope(rows[last.table][i][k].b)

\* C7: a successful insert_row on a table with a primary key echoes the
\* stored row as get_table_data converts rows: the envelope, never raw bytes,
\* in every binary column that is not null.
C7_EchoIsTransportSafe ==
    /\ last.op = "insert_row" /\ last.outcome = "ok"
    /\ PkColumns(last.table) # {}
    => /\ last.hasData
       /\ \E i \in 1..Len(rows[last.table]) :
             last.echo = RowOut(last.table, rows[last.table][i])

\* C8 as claimed: get_table_columns raises for every table that the live
\* schema does not hold at the time of the call.
C8_FailsWhenAbsent ==
    last.op = "get_table_columns" /\ last.table \notin live =>
        last.outcome = "raised"

\* C8: get_table_columns raises exactly when the table is neither cached nor
\* in the live schema at the time of the call; the columns of a cached table
\* are returned also after the table has been dropped.
C8_FailsWhenAbsentAndNotCached ==
    [][ last'.op = "get_table_columns" /\ last' # last =>
          /\ last'.outcome = "raised" <=>
                (last'.table \notin cached /\ last'.table \notin live)
          /\ last'.outcome \in {"ok", "raised"}
          /\ last'.outcome = "ok" => Len(last'.columns) = Len(ColumnSeq(last'.table))
      ]_vars

C8_Witness ==
    /\ last.op = "get_table_columns" /\ last.outcome = "ok"
    /\ last.table \notin live

\* C9 as claimed: a primary_key with a key that is no column of the table is
\* rejected before any statement, whatever else it holds.
C9_UnknownKeyRejected ==
    /\ last.op \in {"update_row", "delete_row"}
    /\ \E k \in Keys : last.pk[k] # Absent /\ k \notin Columns(last.table)
    => /\ last.stmts = <<>>
       /\ last.outcome # "ok"

\* C9: update_row and delete_row execute no statement when no key of
\* primary_key is a column of the table; otherwise a call that returns has
\* executed one statement, whose predicate is the equality on exactly the
\* keys that are columns (the other keys are ignored).
C9_PredicateIsKnownPart ==
    last.op \in {"update_row", "delete_row"} =>
        /\ KnownKeys(last.table, last.pk) = {} => last.stmts = <<>>
        /\ \A st \in LastStmts : st.where = KnownPart(last.table, last.pk)
        /\ KnownKeys(last.table, last.pk) # {} /\ last.outcome # "raised"
              => Len(last.stmts) = 1

C9_Witness ==
    /\ last.op = "delete_row" /\ last.outcome = "ok"
    /\ KnownKeys(last.table, last.pk) # {}
    /\ \E k \in Keys : last.pk[k] # Absent /\ k \notin Columns(last.table)

\* C10 as claimed: a value of a binary column that is no well-formed envelope
\* is never among the values of the INSERT / UPDATE statement.
C10_NotEnvelopeDropped ==
    last.op \in {"insert_row", "update_row"} =>
        \A st \in LastStmts : \A k \in Keys :
            /\ st.kind \in {"INSERT", "UPDATE"}
            /\ IsBinary(last.table, k) /\ last.data[k] # Absent
            /\ ~(last.data[k].kind = "map" /\ last.data[k].type = "binary"
                   /\ last.data[k].dk # "none")
            => st.values[k] = Absent

\* C10: a value of a binary column that is no well-formed envelope is dropped
\* when Python takes it for true (a non-empty string, a number other than 0,
\* true, a non-empty mapping); a value it takes for false (null, the empty
\* string, 0, false, the empty mapping) is among the statement's values as
\* given.
C10_TruthyNotEnvelopeDropped ==
    last.op \in {"insert_row", "update_row"} =>
        \A st \in LastStmts : \A k \in Keys :
            /\ st.kind \in {"INSERT", "UPDATE"}
            /\ IsBinary(last.table, k) /\ last.data[k] # Absent
            /\ ~(last.data[k].kind = "map" /\ last.data[k].type = "binary"
                   /\ last.data[k].dk # "none")
            => st.values[k] =
                 IF last.data[k] \in {VNull, VStr(""), VInt(0), VBool(FALSE), EmptyMap}
                 THEN last.data[k] ELSE Absent

C10_Witness ==
    /\ last.op = "update_row" /\ Len(last.stmts) = 1
    /\ last.data["avatar"] = VInt(0)
    /\ last.stmts[1].values["avatar"] = VInt(0)

\* C11: whatever the interleaving of concurrent calls that first-access a
\* table the cache does not hold yet, the table is reflected against the
\* database at most once: a caller that arrives while another is reflecting
\* the table starts no second reflection.
C11_ReflectedAtMostOnce ==
    \A t \in TableNames : reflected[t] <= 1

====
